---- MODULE Spec2Model ----
(***************************************************************************)
(* Model of convert_excel_to_json.py: the itinerary converter.             *)
(*                                                                         *)
(* Text is modelled as a sequence of characters; a character is a          *)
(* one-character string.  Three characters outside ASCII are written as    *)
(* named tokens: "EUR" is the euro sign U+20AC, "ARROW" is the right arrow *)
(* U+2192 and "APOS" is the right single quotation mark U+2019.            *)
(***************************************************************************)
EXTENDS Integers, Sequences, FiniteSets, TLC

VARIABLES
    pc,               \* position of the operation being run
    activity,         \* assign_activity_type: activity argument
    notes,            \* assign_activity_type / process_notes: notes argument
    types,            \* assign_activity_type: returned list
    costs_and_notes,  \* process_notes: first returned list
    tickets_to_buy,   \* process_notes: second returned list
    location,         \* generate_map_link: argument
    mapLink,          \* generate_map_link: returned string or list of strings
    date_str,         \* convert_date: argument
    formatted_date,   \* convert_date: returned string
    tried,            \* convert_date: the formats strptime was called with, in order
    padYear,          \* the platform: whether strftime pads %Y to four digits
    workbook,         \* main: the sheets of the Excel file, in workbook order
    header_row,       \* table_to_json: the header_row argument of the running call
    sheet_idx,        \* table_to_json: position of the sheet loop
    row_idx,          \* table_to_json: rows of the current sheet processed so far
    date_to_activities, \* table_to_json: the dict, as its items in insertion order
    json_data,        \* main: what table_to_json returned
    raised,           \* the ValueErrors table_to_json raised, one per call that failed
    html_file,        \* the HTML file on disk
    debug_file,       \* debug_output.json on disk
    printed           \* the messages update_html and the entry point printed

fnVars == <<activity, notes, types, costs_and_notes, tickets_to_buy,
            location, mapLink, date_str, formatted_date, tried>>

runVars == <<workbook, header_row, sheet_idx, row_idx, date_to_activities,
             json_data, raised, html_file, debug_file, printed>>

\* Value of a variable that the running specification does not use.
Unused == "unused"

(***************************************************************************)
(* Bounds of the input spaces.                                             *)
(***************************************************************************)
MaxTypeChunks == 2

MaxNoteChunks == 3

MaxLegChunks == 3

\* Lines of a sheet, the header line counted.
MaxLines == 3

(***************************************************************************)
(* Strings.                                                                *)
(***************************************************************************)
UpperChars == <<"A", "B", "C", "D", "E", "F", "G", "H", "I", "J", "K", "L", "M", "N", "O", "P", "Q", "R", "S", "T", "U", "V", "W", "X", "Y", "Z">>

LowerChars == <<"a", "b", "c", "d", "e", "f", "g", "h", "i", "j", "k", "l", "m", "n", "o", "p", "q", "r", "s", "t", "u", "v", "w", "x", "y", "z">>

Digits == <<"0", "1", "2", "3", "4", "5", "6", "7", "8", "9">>

\* The characters Python's str.strip() and the regular expression \s remove.
Whitespace == {" ", "\n", "\t"}

RECURSIVE IndexOf(_, _, _)
\* Least i >= from with s[i] = c, or 0.
IndexOf(s, c, from) ==
    IF from > Len(s) THEN 0
    ELSE IF s[from] = c THEN from
    ELSE IndexOf(s, c, from + 1)

UpperSet == {UpperChars[i] : i \in 1..Len(UpperChars)}

LowerOf == [c \in UpperSet |-> LowerChars[IndexOf(UpperChars, c, 1)]]

\* str.lower() on one character.
LowerChar(c) == IF c \in UpperSet THEN LowerOf[c] ELSE c

\* str.lower()
Lower(s) == [i \in 1..Len(s) |-> LowerChar(s[i])]

\* s[from:] in Python, from counted from 0.
Drop(s, n) == SubSeq(s, n + 1, Len(s))

\* s.startswith(k)
StartsWith(s, k) == Len(k) <= Len(s) /\ SubSeq(s, 1, Len(k)) = k

\* k in s
Contains(s, k) == \E i \in 0..(Len(s) - Len(k)) : SubSeq(s, i + 1, i + Len(k)) = k

\* any(keyword in s for keyword in ks)
ContainsAny(s, ks) == \E k \in ks : Contains(s, k)

\* set(seq)
Elements(seq) == {seq[i] : i \in 1..Len(seq)}

RECURSIVE LStrip(_)
LStrip(s) == IF s # <<>> /\ Head(s) \in Whitespace THEN LStrip(Tail(s)) ELSE s

RECURSIVE RStrip(_)
RStrip(s) ==
    IF s # <<>> /\ s[Len(s)] \in Whitespace THEN RStrip(SubSeq(s, 1, Len(s) - 1)) ELSE s

\* str.strip()
Strip(s) == RStrip(LStrip(s))

RECURSIVE RemoveChars(_, _)
\* s with every character of the set cs removed: chained str.replace(c, '').
RemoveChars(s, cs) ==
    IF s = <<>> THEN <<>>
    ELSE IF Head(s) \in cs THEN RemoveChars(Tail(s), cs)
    ELSE <<Head(s)>> \o RemoveChars(Tail(s), cs)

RECURSIVE Concats(_, _)
\* The texts made of at most n chunks of the set C, joined.
Concats(C, n) ==
    IF n = 0 THEN {<<>>}
    ELSE LET P == Concats(C, n - 1) IN P \cup {p \o c : p \in P, c \in C}

(***************************************************************************)
(* assign_activity_type                                                    *)
(***************************************************************************)
TravelActivityKeywords ==
    { <<"a", "r", "r", "i", "v", "e">>, <<"f", "l", "i", "g", "h", "t">>, <<"t", "a", "x", "i">>, <<"w", "a", "l", "k", " ", "t", "o">>, <<"v", "a", "p", "o", "r", "e", "t", "t", "o">>, <<"t", "r", "a", "i", "n">>,
      <<"w", "a", "t", "e", "r", " ", "b", "u", "s">>, <<"c", "h", "e", "c", "k", "-", "i", "n">>, <<"c", "h", "e", "c", "k", " ", "o", "u", "t">>, <<"l", "u", "g", "g", "a", "g", "e">>, <<"c", "u", "s", "t", "o", "m", "s">>,
      <<"i", "m", "m", "i", "g", "r", "a", "t", "i", "o", "n">> }

TravelNotesKeywords == { <<"f", "l", "i", "g", "h", "t">>, <<"t", "a", "x", "i">>, <<"v", "a", "p", "o", "r", "e", "t", "t", "o">>, <<"t", "r", "a", "i", "n">> }

DiningKeywords == { <<"b", "r", "e", "a", "k", "f", "a", "s", "t">>, <<"l", "u", "n", "c", "h">>, <<"d", "i", "n", "n", "e", "r">>, <<"g", "e", "l", "a", "t", "o">>, <<"s", "n", "a", "c", "k">> }

ActivityActivityKeywords ==
    { <<"v", "i", "e", "w">>, <<"r", "e", "l", "a", "x">>, <<"e", "x", "p", "l", "o", "r", "e">>, <<"f", "r", "e", "e", " ", "t", "i", "m", "e">>, <<"g", "o", "n", "d", "o", "l", "a">>, <<"m", "a", "r", "k", "e", "t">> }

ActivityNotesKeywords == { <<"p", "h", "o", "t", "o">>, <<"s", "i", "g", "h", "t", "s", "e", "e", "i", "n", "g">>, <<"m", "a", "r", "k", "e", "t">> }

IsTravel(activity_lower, notes_lower) ==
    \/ ContainsAny(activity_lower, TravelActivityKeywords)
    \/ ContainsAny(notes_lower, TravelNotesKeywords)

IsDining(activity_lower) == ContainsAny(activity_lower, DiningKeywords)

IsActivity(activity_lower, notes_lower) ==
    \/ ContainsAny(activity_lower, ActivityActivityKeywords)
    \/ ContainsAny(notes_lower, ActivityNotesKeywords)

\* Mutant of DefaultTypes: the default tag is forgotten.
DefaultTypes_Missing == <<>>

DefaultTypes == <<"activity">>

\* Mutant of assign_activity_type: the three tests chained with elif, so that
\* at most one tag applies.
assign_activity_type_Exclusive(a, n) ==
    LET activity_lower == Lower(a)
        notes_lower == Lower(n)
    IN  IF IsTravel(activity_lower, notes_lower) THEN <<"travel">>
        ELSE IF IsDining(activity_lower) THEN <<"dining">>
        ELSE <<"activity">>

assign_activity_type(a, n) ==
    LET activity_lower == Lower(a)
        notes_lower == Lower(n)
        t1 == IF IsTravel(activity_lower, notes_lower) THEN <<"travel">> ELSE <<>>
        t2 == IF IsDining(activity_lower) THEN Append(t1, "dining") ELSE t1
        t3 == IF IsActivity(activity_lower, notes_lower)
              THEN Append(t2, "activity") ELSE t2
    IN IF t3 # <<>> THEN t3 ELSE DefaultTypes


(***************************************************************************)
(* process_notes                                                           *)
(***************************************************************************)
\* pd.isna(notes): the missing cell.  "NaN" is not a character, so the value
\* differs from every text.
Absent == <<"NaN">>

NoneSentinel == << <<"N", "o", "n", "e", ".">> >>

RECURSIVE WsRun(_)
\* Length of the run of whitespace s starts with: what a greedy \s* consumes.
WsRun(s) == IF s # <<>> /\ Head(s) \in Whitespace THEN 1 + WsRun(Tail(s)) ELSE 0

\* Length of the match of  [Hh]old\s+(?:kids'?|children's?)\s+hands?  at the
\* start of s under re.IGNORECASE (the quote is U+2019), 0 when it does not match.
MatchHold(s) ==
    LET l == Lower(s)
        hold == <<"h", "o", "l", "d">>
        kids == <<"k", "i", "d", "s">>
        children == <<"c", "h", "i", "l", "d", "r", "e", "n", "APOS">>
        hand == <<"h", "a", "n", "d">>
    IN  IF ~StartsWith(l, hold) THEN 0
        ELSE
        LET a  == Drop(l, Len(hold))
            w1 == WsRun(a)
            b  == Drop(a, w1)
            n  == IF StartsWith(b, kids)
                  THEN Len(kids) + (IF StartsWith(Drop(b, Len(kids)), <<"APOS">>) THEN 1 ELSE 0)
                  ELSE IF StartsWith(b, children)
                  THEN Len(children)
                       + (IF StartsWith(Drop(b, Len(children)), <<"s">>) THEN 1 ELSE 0)
                  ELSE 0
            c  == Drop(b, n)
            w2 == WsRun(c)
            d  == Drop(c, w2)
        IN  IF w1 = 0 \/ n = 0 \/ w2 = 0 \/ ~StartsWith(d, hand) THEN 0
            ELSE Len(hold) + w1 + n + w2 + Len(hand)
                 + (IF StartsWith(Drop(d, Len(hand)), <<"s">>) THEN 1 ELSE 0)

\* Length of the match of  watch\s+(?:kids|children)  at the start of s under
\* re.IGNORECASE, 0 when it does not match.
MatchWatch(s) ==
    LET l == Lower(s)
        watch == <<"w", "a", "t", "c", "h">>
        kids == <<"k", "i", "d", "s">>
        children == <<"c", "h", "i", "l", "d", "r", "e", "n">>
    IN  IF ~StartsWith(l, watch) THEN 0
        ELSE
        LET a == Drop(l, Len(watch))
            w == WsRun(a)
            b == Drop(a, w)
        IN  IF w = 0 THEN 0
            ELSE IF StartsWith(b, kids) THEN Len(watch) + w + Len(kids)
            ELSE IF StartsWith(b, children) THEN Len(watch) + w + Len(children)
            ELSE 0

\* The filler pattern is the alternation of the two; they start with different
\* letters, so at most one matches.
MatchFiller(s) ==
    IF s = <<>> THEN 0
    ELSE IF LowerChar(Head(s)) = "h" THEN MatchHold(s)
    ELSE IF LowerChar(Head(s)) = "w" THEN MatchWatch(s)
    ELSE 0

RECURSIVE RemoveFiller(_)
\* re.sub(filler, '', notes): leftmost non-overlapping matches removed.
RemoveFiller(s) ==
    IF s = <<>> THEN <<>>
    ELSE LET m == MatchFiller(s)
         IN IF m > 0 THEN RemoveFiller(Drop(s, m))
            ELSE <<Head(s)>> \o RemoveFiller(Tail(s))

SentenceSeparators == {".", "\n", ";"}

RECURSIVE SplitChars(_, _, _)
\* re.split(r'[...]', s) for a class of single characters: the pieces between
\* separators, empty pieces included.
SplitChars(s, seps, cur) ==
    IF s = <<>> THEN <<cur>>
    ELSE IF Head(s) \in seps THEN <<cur>> \o SplitChars(Tail(s), seps, <<>>)
    ELSE SplitChars(Tail(s), seps, Append(cur, Head(s)))

RECURSIVE StripNonEmpty(_)
\* [p.strip() for p in pieces if p.strip()]
StripNonEmpty(pieces) ==
    IF pieces = <<>> THEN <<>>
    ELSE LET p == Strip(Head(pieces))
         IN (IF p # <<>> THEN <<p>> ELSE <<>>) \o StripNonEmpty(Tail(pieces))

Sentences(cleaned) == StripNonEmpty(SplitChars(cleaned, SentenceSeparators, <<>>))

CostKeywords ==
    { <<"a", "p", "p", "l", "e", " ", "p", "a", "y">>, <<"c", "a", "s", "h">>, <<"t", "i", "c", "k", "e", "t">>, <<"f", "a", "r", "e">>, <<"p", "r", "i", "c", "e">>, <<"b", "o", "o", "k", "i", "n", "g">>,
      <<"r", "e", "s", "e", "r", "v", "a", "t", "i", "o", "n">> }

TicketKeywords == { <<"f", "a", "r", "e">>, <<"t", "i", "c", "k", "e", "t">> }

\* Mutant of IsCostRelated: the outer test without the words of the inner one.
IsCostRelated_NoTicketWords(sentence) ==
    \/ Contains(Lower(sentence), <<"c", "o", "s", "t">>)
    \/ ContainsAny(Lower(sentence), CostKeywords \ TicketKeywords)

\* The outer test of the loop.
IsCostRelated(sentence) ==
    \/ Contains(Lower(sentence), <<"c", "o", "s", "t">>)
    \/ Contains(sentence, <<"EUR">>)
    \/ ContainsAny(Lower(sentence), CostKeywords)

\* The inner test of the loop.
MentionsSpecificCost(sentence) ==
    \/ Contains(sentence, <<"EUR">>)
    \/ ContainsAny(Lower(sentence), TicketKeywords)

RECURSIVE ClassifySentences(_, _, _)
\* The for loop: returns <<costs_and_notes, tickets_to_buy>>.
ClassifySentences(sentences, costs, tickets) ==
    IF sentences = <<>> THEN <<costs, tickets>>
    ELSE LET sentence == Head(sentences)
         IN IF IsCostRelated(sentence)
            THEN ClassifySentences(Tail(sentences), Append(costs, sentence),
                     IF MentionsSpecificCost(sentence)
                     THEN Append(tickets, sentence) ELSE tickets)
            ELSE ClassifySentences(Tail(sentences), Append(costs, sentence), tickets)

\* Mutant of process_notes: the ticket list is returned as the loop left it,
\* and the early returns give it empty.
process_notes_NoDefault(n) ==
    IF n = Absent THEN << <<>>, <<>> >>
    ELSE ClassifySentences(Sentences(Strip(RemoveFiller(n))), <<>>, <<>>)

\* Returns <<costs_and_notes, tickets_to_buy>>.
process_notes(n) ==
    IF n = Absent THEN << <<>>, NoneSentinel >>
    ELSE LET cleaned == Strip(RemoveFiller(n))
         IN IF cleaned = <<>> THEN << <<>>, NoneSentinel >>
            ELSE LET r == ClassifySentences(Sentences(cleaned), <<>>, <<>>)
                 IN << IF r[1] # <<>> THEN r[1] ELSE <<>>,
                       IF r[2] # <<>> THEN r[2] ELSE NoneSentinel >>

(***************************************************************************)
(* generate_map_link                                                       *)
(***************************************************************************)
BaseUrl == <<"h", "t", "t", "p", "s", ":", "/", "/", "m", "a", "p", "s", ".", "a", "p", "p", ".", "g", "o", "o", ".", "g", "l", "/">>

\* Length of the match of  \s*(?:to|ARROW)\s*  at the start of s, 0 when it
\* does not match.  The pattern is case-sensitive and has no word boundary.
MatchLegSeparator(s) ==
    LET w1 == WsRun(s)
        a  == Drop(s, w1)
        n  == IF StartsWith(a, <<"t", "o">>) THEN Len(<<"t", "o">>)
              ELSE IF StartsWith(a, <<"ARROW">>) THEN Len(<<"ARROW">>)
              ELSE 0
    IN  IF n = 0 THEN 0 ELSE w1 + n + WsRun(Drop(a, n))

RECURSIVE SplitLegs(_, _)
\* re.split(r'\s*(?:to|ARROW)\s*', location): a match is looked for at each
\* position from the left, and the search goes on after the match.
SplitLegs(s, cur) ==
    IF s = <<>> THEN <<cur>>
    ELSE LET m == MatchLegSeparator(s)
         IN IF m > 0 THEN <<cur>> \o SplitLegs(Drop(s, m), <<>>)
            ELSE SplitLegs(Tail(s), Append(cur, Head(s)))

\* loc.replace(' ', '').replace('(', '').replace(')', '')
LinkName(loc) == RemoveChars(loc, {" ", "(", ")"})

\* Returns a list of links when the split gives several legs, one link otherwise.
\* A list of links is a sequence of strings; a link is a sequence of characters.
generate_map_link(loc) ==
    LET pieces == SplitLegs(loc, <<>>)
        locations == [i \in 1..Len(pieces) |-> Strip(pieces[i])]
    IN  IF Len(locations) > 1
        THEN [kind |-> "list",
              links |-> [i \in 1..Len(locations) |-> BaseUrl \o LinkName(locations[i])]]
        ELSE [kind |-> "string", links |-> << BaseUrl \o LinkName(loc) >>]

(***************************************************************************)
(* convert_date                                                            *)
(***************************************************************************)
IsDigits(s) == \A i \in 1..Len(s) : IndexOf(Digits, s[i], 1) > 0

RECURSIVE ParseNat(_)
\* int(s) for a string of decimal digits.
ParseNat(s) ==
    IF s = <<>> THEN 0
    ELSE 10 * ParseNat(SubSeq(s, 1, Len(s) - 1)) + (IndexOf(Digits, s[Len(s)], 1) - 1)

RECURSIVE NatStr(_)
\* str(n) for n >= 0.
NatStr(n) ==
    IF n < 10 THEN <<Digits[n + 1]>> ELSE NatStr(n \div 10) \o <<Digits[(n % 10) + 1]>>

RECURSIVE ZeroPad(_, _)
\* s.zfill(w)
ZeroPad(s, w) == IF Len(s) >= w THEN s ELSE ZeroPad(<<"0">> \o s, w)

MonthNames ==
    << <<"J", "a", "n", "u", "a", "r", "y">>, <<"F", "e", "b", "r", "u", "a", "r", "y">>, <<"M", "a", "r", "c", "h">>, <<"A", "p", "r", "i", "l">>, <<"M", "a", "y">>, <<"J", "u", "n", "e">>, <<"J", "u", "l", "y">>,
       <<"A", "u", "g", "u", "s", "t">>, <<"S", "e", "p", "t", "e", "m", "b", "e", "r">>, <<"O", "c", "t", "o", "b", "e", "r">>, <<"N", "o", "v", "e", "m", "b", "e", "r">>, <<"D", "e", "c", "e", "m", "b", "e", "r">> >>

\* %b in the C locale: the first three letters of the month name, matched
\* without regard to letter case.
MonthAbbr(m) == Lower(SubSeq(MonthNames[m], 1, 3))

IsLeap(y) == (y % 4 = 0 /\ y % 100 # 0) \/ y % 400 = 0

DaysInMonth(y, m) ==
    IF m = 2 THEN (IF IsLeap(y) THEN 29 ELSE 28)
    ELSE IF m \in {4, 6, 9, 11} THEN 30
    ELSE 31

\* A field of one or two digits whose value lies in lo..hi: the language of
\* strptime's pattern for %m, %H, %M and %S, and of %d without its last branch.
IsNumField(s, lo, hi) ==
    /\ Len(s) \in {1, 2}
    /\ IsDigits(s)
    /\ ParseNat(s) >= lo
    /\ ParseNat(s) <= hi

\* %d: 3[0-1]|[1-2]\d|0[1-9]|[1-9]| [1-9]
IsDayField(s) ==
    \/ IsNumField(s, 1, 31)
    \/ Len(s) = 2 /\ s[1] = " " /\ IsNumField(<<s[2]>>, 1, 9)

DayValue(s) == IF s[1] = " " THEN ParseNat(<<s[2]>>) ELSE ParseNat(s)

\* %y: the POSIX pivot, 69-99 are 1969-1999 and 00-68 are 2000-2068.
TwoDigitYear(yy) == IF yy <= 68 THEN 2000 + yy ELSE 1900 + yy

ParseFailure == [ok |-> FALSE]

\* The datetime constructor's range checks.
MakeDate(y, m, d, sec) ==
    IF y >= 1 /\ d <= DaysInMonth(y, m) /\ sec <= 59
    THEN [ok |-> TRUE, year |-> y, month |-> m, day |-> d]
    ELSE ParseFailure

\* datetime.strptime(s, '%d-%b-%y'); a failure is the ValueError.
ParseDayMonthYear(s) ==
    LET parts == SplitChars(s, {"-"}, <<>>)
    IN  IF Len(parts) # 3 THEN ParseFailure
        ELSE
        LET months == {m \in 1..12 : MonthAbbr(m) = Lower(parts[2])}
        IN  IF /\ IsDayField(parts[1])
               /\ months # {}
               /\ Len(parts[3]) = 2 /\ IsDigits(parts[3])
            THEN MakeDate(TwoDigitYear(ParseNat(parts[3])), CHOOSE m \in months : TRUE,
                          DayValue(parts[1]), 0)
            ELSE ParseFailure

\* The day field at the start of s, as the pattern of %d takes it when
\* whitespace follows: a space and a digit, or the leading run of digits.
RECURSIVE DigitRun(_)
DigitRun(s) ==
    IF s # <<>> /\ IndexOf(Digits, Head(s), 1) > 0 THEN 1 + DigitRun(Tail(s)) ELSE 0

LeadingDayField(s) ==
    IF s # <<>> /\ Head(s) = " " THEN SubSeq(s, 1, 2) ELSE SubSeq(s, 1, DigitRun(s))

\* datetime.strptime(s, '%Y-%m-%d %H:%M:%S'); the blank of the format matches
\* one or more whitespace characters.
ParseTimestamp(s) ==
    LET parts == SplitChars(s, {"-"}, <<>>)
    IN  IF Len(parts) # 3 THEN ParseFailure
        ELSE
        LET dayf == LeadingDayField(parts[3])
            rest == Drop(parts[3], Len(dayf))
            w    == WsRun(rest)
            hms  == SplitChars(Drop(rest, w), {":"}, <<>>)
        IN  IF /\ Len(parts[1]) = 4 /\ IsDigits(parts[1])
               /\ IsNumField(parts[2], 1, 12)
               /\ dayf # <<>> /\ IsDayField(dayf)
               /\ w > 0
               /\ Len(hms) = 3
               /\ IsNumField(hms[1], 0, 23)
               /\ IsNumField(hms[2], 0, 59)
               /\ IsNumField(hms[3], 0, 61)
            THEN MakeDate(ParseNat(parts[1]), ParseNat(parts[2]), DayValue(dayf),
                          ParseNat(hms[3]))
            ELSE ParseFailure

RECURSIVE Replace(_, _, _)
\* s.replace(old, new), old not empty.
Replace(s, old, new) ==
    IF s = <<>> THEN <<>>
    ELSE IF StartsWith(s, old) THEN new \o Replace(Drop(s, Len(old)), old, new)
    ELSE <<Head(s)>> \o Replace(Tail(s), old, new)

\* %Y of strftime: the C library writes a year below 1000 either as it is or
\* padded with zeros to four digits, depending on the platform.
YearText(y, pad) == IF pad THEN ZeroPad(NatStr(y), 4) ELSE NatStr(y)

\* date_obj.strftime('%B %d, %Y')
FormatLong(d, pad) ==
    MonthNames[d.month] \o <<" ">> \o ZeroPad(NatStr(d.day), 2) \o <<",", " ">>
        \o YearText(d.year, pad)

\* date_obj.strftime('%B %d, %Y').replace(' 0', ' ')
StripDayZero(s) == Replace(s, <<" ", "0">>, <<" ">>)

\* The whole of convert_date as a function of its argument and the platform.
convert_date(s, pad) ==
    LET d1 == ParseDayMonthYear(s)
        d2 == ParseTimestamp(s)
    IN  IF d1.ok THEN StripDayZero(FormatLong(d1, pad))
        ELSE IF d2.ok THEN StripDayZero(FormatLong(d2, pad))
        ELSE s

(***************************************************************************)
(* table_to_json                                                           *)
(***************************************************************************)
\* The printable ASCII characters in code point order, from the blank (32).
\* The double quote, the backslash and the backtick are written as named tokens.
AsciiPrintable ==
    <<
       " ", "!", "QUOTE", "#", "$", "%", "&", "'", "(", ")", "*", "+",
       ",", "-", ".", "/", "0", "1", "2", "3", "4", "5", "6", "7",
       "8", "9", ":", ";", "<", "=", ">", "?", "@", "A", "B", "C",
       "D", "E", "F", "G", "H", "I", "J", "K", "L", "M", "N", "O",
       "P", "Q", "R", "S", "T", "U", "V", "W", "X", "Y", "Z", "[",
       "BACKSLASH", "]", "^", "_", "BACKTICK", "a", "b", "c", "d", "e", "f", "g",
       "h", "i", "j", "k", "l", "m", "n", "o", "p", "q", "r", "s",
       "t", "u", "v", "w", "x", "y", "z", "{", "|", "}", "~"
    >>

\* ord(c)
Ord(c) ==
    IF c = "\t" THEN 9
    ELSE IF c = "\n" THEN 10
    ELSE IF c = "APOS" THEN 8217
    ELSE IF c = "EUR" THEN 8364
    ELSE IF c = "ARROW" THEN 8594
    ELSE 31 + IndexOf(AsciiPrintable, c, 1)

RECURSIVE StrLess(_, _)
\* a < b for Python strings: by code point, a proper prefix first.
StrLess(a, b) ==
    IF b = <<>> THEN FALSE
    ELSE IF a = <<>> THEN TRUE
    ELSE IF Head(a) # Head(b) THEN Ord(Head(a)) < Ord(Head(b))
    ELSE StrLess(Tail(a), Tail(b))

RECURSIVE SortedSet(_)
\* sorted(S) for a set of strings.
SortedSet(S) ==
    IF S = {} THEN <<>>
    ELSE LET m == CHOOSE x \in S : \A y \in S \ {x} : StrLess(x, y)
         IN <<m>> \o SortedSet(S \ {m})

RECURSIVE Join(_, _)
\* sep.join(parts)
Join(parts, sep) ==
    IF parts = <<>> THEN <<>>
    ELSE IF Len(parts) = 1 THEN parts[1]
    ELSE parts[1] \o sep \o Join(Tail(parts), sep)

expected_columns ==
    << <<"d", "a", "t", "e">>, <<"t", "i", "m", "e">>, <<"a", "c", "t", "i", "v", "i", "t", "y">>, <<"l", "o", "c", "a", "t", "i", "o", "n">>, <<"d", "i", "r", "e", "c", "t", "i", "o", "n", "s">>,
       <<"t", "r", "a", "n", "s", "p", "o", "r", "t", "a", "t", "i", "o", "n", " ", "d", "e", "t", "a", "i", "l", "s">>, <<"n", "o", "t", "e", "s">> >>

\* Every label is a string here: col.strip().lower()
normalize_columns(columns) == [i \in 1..Len(columns) |-> Lower(Strip(columns[i]))]

\* pd.read_excel(..., dtype=str, header=h, skiprows=0): line h of the sheet
\* (counted from 0) gives the labels, an empty header cell the label
\* 'Unnamed: k', and the lines after it are the rows.
ReadExcel(sheet, h) ==
    LET labels == sheet.lines[h + 1]
    IN [columns |-> [k \in 1..Len(labels) |->
                        IF labels[k] = Absent
                        THEN <<"U", "n", "n", "a", "m", "e", "d", ":", " ">> \o NatStr(k - 1) ELSE labels[k]],
        rows |-> SubSeq(sheet.lines, h + 2, Len(sheet.lines))]

\* Mutant of MissingColumns: the labels are compared as the sheet spells them,
\* without normalisation.
MissingColumns_Raw(columns) ==
    SelectSeq(expected_columns, LAMBDA col : col \notin Elements(columns))

\* missing = [col for col in expected_columns if col not in actual_columns]
MissingColumns(columns) ==
    LET actual_columns == normalize_columns(columns)
    IN SelectSeq(expected_columns, LAMBDA col : col \notin Elements(actual_columns))

\* row[label] after df.columns was set to the normalised labels.
Cell(columns, row, label) == row[IndexOf(normalize_columns(columns), label, 1)]

\* str(x) for a cell: a missing cell is the float nan.
Str(x) == IF x = Absent THEN <<"n", "a", "n">> ELSE x

NotAvailable == <<"N", "/", "A">>

\* [d.strip() for d in text.split('.') if d.strip()] if text != 'N/A' else ['N/A']
SplitSteps(text) ==
    IF text # NotAvailable THEN StripNonEmpty(SplitChars(text, {"."}, <<>>))
    ELSE <<NotAvailable>>

\* The ladder of tests that builds things_to_do.
ThingsToDo(act, loc) ==
    LET activity_lower == Lower(act)
        has(k) == Contains(activity_lower, k)
        t1 == IF has(<<"a", "r", "r", "i", "v", "e">>) THEN << <<"A", "r", "r", "i", "v", "e", " ", "a", "t", " ">> \o loc \o <<".">> >> ELSE <<>>
        t2 == IF has(<<"w", "a", "l", "k">>) THEN Append(t1, <<"W", "a", "l", "k", " ", "t", "o", " ">> \o loc \o <<".">>) ELSE t1
        t3 == IF has(<<"t", "a", "x", "i">>) \/ has(<<"f", "l", "i", "g", "h", "t">>) \/ has(<<"t", "r", "a", "i", "n">>) \/ has(<<"v", "a", "p", "o", "r", "e", "t", "t", "o">>)
              THEN Append(t2, <<"T", "r", "a", "v", "e", "l", " ", "t", "o", " ">> \o loc \o <<".">>) ELSE t2
        t4 == IF has(<<"b", "r", "e", "a", "k", "f", "a", "s", "t">>) \/ has(<<"l", "u", "n", "c", "h">>) \/ has(<<"d", "i", "n", "n", "e", "r">>) \/ has(<<"g", "e", "l", "a", "t", "o">>)
              THEN Append(t3, <<"E", "n", "j", "o", "y", " ">> \o activity_lower \o <<" ", "a", "t", " ">> \o loc \o <<".">>)
              ELSE t3
        t5 == IF has(<<"v", "i", "e", "w">>) \/ has(<<"e", "x", "p", "l", "o", "r", "e">>) \/ has(<<"r", "e", "l", "a", "x">>) \/ has(<<"f", "r", "e", "e", " ", "t", "i", "m", "e">>)
              THEN Append(t4, <<"E", "x", "p", "l", "o", "r", "e", " ", "o", "r", " ", "r", "e", "l", "a", "x", " ", "a", "t", " ">> \o loc \o <<".">>) ELSE t4
        t6 == IF has(<<"c", "h", "e", "c", "k", "-", "i", "n">>) \/ has(<<"c", "h", "e", "c", "k", " ", "o", "u", "t">>)
              THEN Append(t5, <<"C", "o", "m", "p", "l", "e", "t", "e", " ", "c", "h", "e", "c", "k", "-", "i", "n", "/", "o", "u", "t", " ", "a", "t", " ">> \o loc \o <<".">>) ELSE t5
        t7 == IF has(<<"l", "u", "g", "g", "a", "g", "e">>) THEN Append(t6, <<"H", "a", "n", "d", "l", "e", " ", "l", "u", "g", "g", "a", "g", "e", " ", "a", "t", " ">> \o loc \o <<".">>)
              ELSE t6
    IN  IF t7 = <<>> THEN << <<"P", "e", "r", "f", "o", "r", "m", " ", "a", "c", "t", "i", "v", "i", "t", "y", ":", " ">> \o act \o <<".">> >> ELSE t7

\* The body of the row loop up to the dict: the record of one row.
ActivityData(sheet_name, columns, row) ==
    LET get(label) == Cell(columns, row, label)
        act == IF get(<<"a", "c", "t", "i", "v", "i", "t", "y">>) # Absent THEN get(<<"a", "c", "t", "i", "v", "i", "t", "y">>) ELSE <<>>
        loc == IF get(<<"l", "o", "c", "a", "t", "i", "o", "n">>) # Absent THEN get(<<"l", "o", "c", "a", "t", "i", "o", "n">>) ELSE <<>>
        directions == IF get(<<"d", "i", "r", "e", "c", "t", "i", "o", "n", "s">>) # Absent
                      THEN get(<<"d", "i", "r", "e", "c", "t", "i", "o", "n", "s">>) ELSE NotAvailable
        transportation == IF get(<<"t", "r", "a", "n", "s", "p", "o", "r", "t", "a", "t", "i", "o", "n", " ", "d", "e", "t", "a", "i", "l", "s">>) # Absent
                          THEN get(<<"t", "r", "a", "n", "s", "p", "o", "r", "t", "a", "t", "i", "o", "n", " ", "d", "e", "t", "a", "i", "l", "s">>) ELSE NotAvailable
        nts == IF get(<<"n", "o", "t", "e", "s">>) # Absent THEN get(<<"n", "o", "t", "e", "s">>) ELSE <<>>
        split == process_notes(nts)
    IN  [time |-> Str(get(<<"t", "i", "m", "e">>)),
         activity |-> act,
         location |-> loc,
         mapLink |-> generate_map_link(loc),
         directions |-> SplitSteps(directions),
         transportation |-> SplitSteps(transportation),
         thingsToDo |-> ThingsToDo(act, loc),
         ticketsToBuy |-> split[2],
         costsAndNotes |-> split[1],
         type |-> assign_activity_type(act, nts),
         city |-> sheet_name]

\* The key of a row: convert_date(str(row['date'])).
RowDate(columns, row, pad) == convert_date(Str(Cell(columns, row, <<"d", "a", "t", "e">>)), pad)

\* key in d, for a dict given as its items <<key, value>> in insertion order.
DictHas(d, key) == \E i \in 1..Len(d) : d[i][1] = key

\* Mutant of DictAppend: a key seen before starts a fresh list.
DictAppend_Overwrite(d, key, value) ==
    IF DictHas(d, key)
    THEN [i \in 1..Len(d) |-> IF d[i][1] = key THEN <<key, <<value>> >> ELSE d[i]]
    ELSE Append(d, <<key, <<value>> >>)

\* if key not in d: d[key] = []; then d[key].append(value)
DictAppend(d, key, value) ==
    IF DictHas(d, key)
    THEN [i \in 1..Len(d) |->
             IF d[i][1] = key THEN <<key, Append(d[i][2], value)>> ELSE d[i]]
    ELSE Append(d, <<key, <<value>> >>)

\* Mutant of SortedItems: the items are left in insertion order.
SortedItems_Unsorted(d) == d

\* sorted(d.items()): the keys differ, so the keys alone decide the order.
SortedItems(d) == SortSeq(d, LAMBDA a, b : StrLess(a[1], b[1]))

\* ", ".join(sorted(set(a["city"] for a in activities)))
CityLabel(activities) ==
    Join(SortedSet({activities[i].city : i \in 1..Len(activities)}), <<",", " ">>)

\* The loop that creates the itinerary by date.
Itinerary(d) ==
    LET items == SortedItems(d)
    IN [i \in 1..Len(items) |->
           [city |-> CityLabel(items[i][2]),
            date |-> items[i][1],
            activities |-> items[i][2]]]

RunUnused ==
    /\ workbook = Unused /\ header_row = Unused /\ sheet_idx = Unused
    /\ row_idx = Unused /\ date_to_activities = Unused /\ json_data = Unused
    /\ raised = Unused /\ html_file = Unused /\ debug_file = Unused
    /\ printed = Unused

(***************************************************************************)
(* The calls of the four functions, each on inputs drawn from a bounded    *)
(* set of texts.                                                           *)
(***************************************************************************)
\* Inputs of the classifier: texts in mixed letter case, with keywords that
\* appear whole, split over two chunks, or not at all.
ActivityChunks ==
    { <<"B", "r", "e", "a", "k">>, <<"F", "A", "S", "T", " ">>, <<"T", "a", "x", "i">>, <<"w", "a", "l", "k", " ", "t", "o">>, <<"G", "o", "n", "d", "o", "l", "a", " ", "v", "i", "e", "w">>, <<"x">> }

TypeNotesChunks == { <<"T", "r", "a">>, <<"i", "n">>, <<"P", "h", "o", "t", "o">>, <<"z">> }

TypesInit ==
    /\ pc = "call"
    /\ activity \in Concats(ActivityChunks, MaxTypeChunks)
    /\ notes \in Concats(TypeNotesChunks, MaxTypeChunks)
    /\ types = <<>>
    /\ costs_and_notes = Unused /\ tickets_to_buy = Unused
    /\ location = Unused /\ mapLink = Unused
    /\ date_str = Unused /\ formatted_date = Unused /\ tried = Unused
    /\ padYear = FALSE
    /\ RunUnused

AssignActivityType ==
    /\ pc = "call"
    /\ types' = assign_activity_type(activity, notes)
    /\ pc' = "done"
    /\ UNCHANGED <<activity, notes, costs_and_notes, tickets_to_buy,
                   location, mapLink, date_str, formatted_date, tried, padYear, runVars>>

TypesNext == AssignActivityType

vars == <<pc, fnVars, padYear, runVars>>

SpecTypes == TypesInit /\ [][TypesNext]_vars

\* Inputs of the notes splitter: the missing cell, and texts with filler
\* phrases (whole, or formed by two chunks), the three separators, and
\* fragments that pass both tests of the loop, the outer one only, or none.
NotesChunks ==
    { <<"H", "o", "l", "d", " ", "k", "i", "d", "s", "APOS", " ", "h", "a", "n", "d", "s">>, <<"w", "a", "t", "c", "h", " ">>, <<"C", "h", "i", "l", "d", "r", "e", "n">>, <<".", " ">>, <<";">>, <<"\n">>,
      <<"T", "i", "c", "k", "e", "t", " ", "A">>, <<"EUR", "9">>, <<"c", "a", "s", "h">>, <<"s", "e", "e", " ", "m", "a", "p">> }

NotesInit ==
    /\ pc = "call"
    /\ notes \in {Absent} \cup Concats(NotesChunks, MaxNoteChunks)
    /\ costs_and_notes = <<>> /\ tickets_to_buy = <<>>
    /\ activity = Unused /\ types = Unused
    /\ location = Unused /\ mapLink = Unused
    /\ date_str = Unused /\ formatted_date = Unused /\ tried = Unused
    /\ padYear = FALSE
    /\ RunUnused

ProcessNotes ==
    /\ pc = "call"
    /\ costs_and_notes' = process_notes(notes)[1]
    /\ tickets_to_buy' = process_notes(notes)[2]
    /\ pc' = "done"
    /\ UNCHANGED <<activity, notes, types, location, mapLink, date_str,
                   formatted_date, tried, padYear, runVars>>

NotesNext == ProcessNotes

SpecNotes == NotesInit /\ [][NotesNext]_vars

\* Inputs of the link generator: place names, the two separators with and
\* without blanks around them, parentheses, and the letters "to" inside a name.
LocationChunks ==
    { <<"V", "e", "n", "i", "c", "e">>, <<"M", "u", "r", "a", "n", "o">>, <<" ", "t", "o", " ">>, <<"S", "a", "n">>, <<"t", "o">>, <<"r", "i", "n", "i">>, <<" ", "ARROW", " ">>,
      <<" ", "(", "R", "i", "a", "l", "t", "o", ")">> }

LinkInit ==
    /\ pc = "call"
    /\ location \in Concats(LocationChunks, MaxLegChunks)
    /\ mapLink = [kind |-> "none", links |-> <<>>]
    /\ activity = Unused /\ notes = Unused /\ types = Unused
    /\ costs_and_notes = Unused /\ tickets_to_buy = Unused
    /\ date_str = Unused /\ formatted_date = Unused /\ tried = Unused
    /\ padYear = FALSE
    /\ RunUnused

GenerateMapLink ==
    /\ pc = "call"
    /\ mapLink' = generate_map_link(location)
    /\ pc' = "done"
    /\ UNCHANGED <<activity, notes, types, costs_and_notes, tickets_to_buy,
                   location, date_str, formatted_date, tried, padYear, runVars>>

LinkNext == GenerateMapLink

SpecLink == LinkInit /\ [][LinkNext]_vars

\* Inputs of the date converter: both formats with days, months and years in
\* and out of range, with and without leading zeros, and texts of no format.
DayMonthYearInputs ==
    { d \o <<"-">> \o m \o <<"-">> \o y :
        d \in { <<"3">>, <<"0", "3">>, <<"3", "1">>, <<"0">>, <<"3", "2">>, <<" ", "3">> },
        m \in { <<"J", "u", "l">>, <<"J", "U", "L">>, <<"F", "e", "b">>, <<"D", "e", "c">>, <<"X", "y", "z">> },
        y \in { <<"2", "5">>, <<"6", "9">>, <<"2", "0", "2", "5">> } }

TimestampInputs ==
    { y \o <<"-">> \o m \o <<"-">> \o d \o t :
        y \in { <<"2", "0", "2", "5">>, <<"0", "0", "2", "5">>, <<"0", "0", "0", "0">> },
        m \in { <<"0", "7">>, <<"1", "2">>, <<"2">>, <<"1", "3">> },
        d \in { <<"0", "3">>, <<"3", "1">>, <<"3">> },
        t \in { <<" ", "0", "0", ":", "0", "0", ":", "0", "0">>, <<" ", "9", ":", "5", ":", "7">>, <<" ", "0", "0", ":", "0", "0", ":", "6", "0">>, <<" ", "2", "4", ":", "0", "0", ":", "0", "0">>, <<"T", "0", "0", ":", "0", "0", ":", "0", "0">> } }

OtherDateInputs == { <<"n", "o", "t", "-", "a", "-", "d", "a", "t", "e">>, <<"n", "a", "n">>, <<>>, <<"J", "u", "l", "y", " ", "3", ",", " ", "2", "0", "2", "5">> }

FirstFormat == "%d-%b-%y"

SecondFormat == "%Y-%m-%d %H:%M:%S"

DateInit ==
    /\ pc = "try_first"
    /\ date_str \in DayMonthYearInputs \cup TimestampInputs \cup OtherDateInputs
    /\ padYear \in BOOLEAN
    /\ formatted_date = <<>>
    /\ tried = <<>>
    /\ activity = Unused /\ notes = Unused /\ types = Unused
    /\ costs_and_notes = Unused /\ tickets_to_buy = Unused
    /\ location = Unused /\ mapLink = Unused
    /\ RunUnused

\* The outer try block.
TryFirstFormat ==
    /\ pc = "try_first"
    /\ tried' = Append(tried, FirstFormat)
    /\ LET date_obj == ParseDayMonthYear(date_str)
       IN IF date_obj.ok
          THEN /\ formatted_date' = StripDayZero(FormatLong(date_obj, padYear))
               /\ pc' = "done"
          ELSE /\ pc' = "try_second"
               /\ UNCHANGED formatted_date
    /\ UNCHANGED <<activity, notes, types, costs_and_notes, tickets_to_buy,
                   location, mapLink, date_str, padYear, runVars>>

\* The handler of the first ValueError: the inner try block and its handler.
TrySecondFormat ==
    /\ pc = "try_second"
    /\ tried' = Append(tried, SecondFormat)
    /\ LET date_obj == ParseTimestamp(date_str)
       IN IF date_obj.ok
          THEN formatted_date' = StripDayZero(FormatLong(date_obj, padYear))
          ELSE formatted_date' = date_str
    /\ pc' = "done"
    /\ UNCHANGED <<activity, notes, types, costs_and_notes, tickets_to_buy,
                   location, mapLink, date_str, padYear, runVars>>

DateNext == TryFirstFormat \/ TrySecondFormat

SpecDate == DateInit /\ [][DateNext]_vars

(***************************************************************************)
(* main: the run of the converter on a workbook.                           *)
(***************************************************************************)
\* The header line, spelt with blanks and capitals that normalisation removes.
HeaderLine ==
    << <<" ", "D", "a", "t", "e">>, <<"T", "I", "M", "E">>, <<"A", "c", "t", "i", "v", "i", "t", "y">>, <<"L", "o", "c", "a", "t", "i", "o", "n", " ">>, <<"D", "i", "r", "e", "c", "t", "i", "o", "n", "s">>,
       <<"T", "r", "a", "n", "s", "p", "o", "r", "t", "a", "t", "i", "o", "n", " ", "D", "e", "t", "a", "i", "l", "s">>, <<"n", "o", "t", "e", "s">> >>

\* A header line without the notes column.
HeaderNoNotes ==
    << <<"D", "a", "t", "e">>, <<"T", "i", "m", "e">>, <<"A", "c", "t", "i", "v", "i", "t", "y">>, <<"L", "o", "c", "a", "t", "i", "o", "n">>, <<"D", "i", "r", "e", "c", "t", "i", "o", "n", "s">>,
       <<"T", "r", "a", "n", "s", "p", "o", "r", "t", "a", "t", "i", "o", "n", " ", "D", "e", "t", "a", "i", "l", "s">>, <<"R", "e", "m", "a", "r", "k", "s">> >>

\* A title line above the header line.
TitleLine == << <<"I", "t", "a", "l", "y", " ", "2", "0", "2", "5">>, Absent, Absent, Absent, Absent, Absent, Absent >>

RowJuly ==
    << <<"3", "-", "J", "u", "l", "-", "2", "5">>, <<"9", ":", "0", "0">>, <<"B", "r", "e", "a", "k", "f", "a", "s", "t">>, <<"L", "i", "d", "o", " ", "t", "o", " ", "M", "u", "r", "a", "n", "o">>, <<"G", "o", " ", "n", "o", "r", "t", "h", ".", " ", "T", "u", "r", "n", " ", "l", "e", "f", "t">>,
       Absent, <<"T", "i", "c", "k", "e", "t", " ", "EUR", "5", ".", " ", "H", "o", "l", "d", " ", "k", "i", "d", "s", "APOS", " ", "h", "a", "n", "d", "s">> >>

RowDecember ==
    << <<"2", "0", "2", "5", "-", "1", "2", "-", "0", "1", " ", "0", "0", ":", "0", "0", ":", "0", "0">>, Absent, <<"F", "r", "e", "e", " ", "t", "i", "m", "e">>, <<"R", "i", "a", "l", "t", "o", " ", "(", "e", "a", "s", "t", ")">>, Absent,
       <<"V", "a", "p", "o", "r", "e", "t", "t", "o", " ", "1", ".">>, Absent >>

FirstLines == {HeaderLine, HeaderNoNotes, TitleLine}

\* A later line is a row, or the header line under a title line.
OtherLines == {HeaderLine, RowJuly, RowDecember}

RECURSIVE SeqsUpTo(_, _)
\* The sequences over S of length 1..n.
SeqsUpTo(S, n) ==
    IF n <= 0 THEN {}
    ELSE {<<x>> : x \in S}
         \cup {<<x>> \o t : x \in S, t \in SeqsUpTo(S, n - 1)}

\* A sheet has at least two lines, so that both header rows main asks for exist.
SheetLines == {<<f>> \o t : f \in FirstLines, t \in SeqsUpTo(OtherLines, MaxLines - 1)}

SheetNames == << <<"V", "e", "n", "i", "c", "e">>, <<"R", "o", "m", "e">> >>

Workbooks ==
    UNION { [1..n -> SheetLines] : n \in 1..Len(SheetNames) }

\* xls.sheet_names and the lines of each sheet.
Sheet(i) == [name |-> SheetNames[i], lines |-> workbook[i]]

\* None: no structure.  A record, so that it compares with one.
NoData == [none |-> TRUE]

\* df of the sheet the loop is at.
Frame == ReadExcel(Sheet(sheet_idx), header_row)

Init ==
    /\ pc = "main"
    /\ workbook \in Workbooks
    /\ header_row = 0
    /\ sheet_idx = 0
    /\ row_idx = 0
    /\ date_to_activities = <<>>
    /\ json_data = NoData
    /\ raised = <<>>
    /\ html_file = [patched |-> FALSE, data |-> NoData]
    /\ debug_file = NoData
    /\ printed = <<>>
    /\ padYear = FALSE
    /\ activity = Unused /\ notes = Unused /\ types = Unused
    /\ costs_and_notes = Unused /\ tickets_to_buy = Unused
    /\ location = Unused /\ mapLink = Unused
    /\ date_str = Unused /\ formatted_date = Unused /\ tried = Unused

\* main: one of the two files does not exist; FileNotFoundError reaches the
\* entry point, which prints it.
FileNotFound ==
    /\ pc = "main"
    /\ printed' = Append(printed, "Error")
    /\ pc' = "exit"
    /\ UNCHANGED <<workbook, header_row, sheet_idx, row_idx, date_to_activities,
                   json_data, raised, html_file, debug_file>>
    /\ UNCHANGED <<fnVars, padYear>>

\* main: both files exist; the first call table_to_json(excel_file, header_row=0).
CallTableToJson ==
    /\ pc = "main"
    /\ header_row' = 0
    /\ sheet_idx' = 1
    /\ row_idx' = 0
    /\ date_to_activities' = <<>>
    /\ pc' = "sheet"
    /\ UNCHANGED <<workbook, json_data, raised, html_file, debug_file, printed>>
    /\ UNCHANGED <<fnVars, padYear>>

\* table_to_json: a sheet is read and has every required column.
ReadSheet ==
    /\ pc = "sheet"
    /\ MissingColumns(Frame.columns) = <<>>
    /\ row_idx' = 0
    /\ pc' = "rows"
    /\ UNCHANGED <<workbook, header_row, sheet_idx, date_to_activities, json_data,
                   raised, html_file, debug_file, printed>>
    /\ UNCHANGED <<fnVars, padYear>>

\* table_to_json: a sheet is read and lacks a required column: ValueError.
RaiseMissingColumns ==
    /\ pc = "sheet"
    /\ MissingColumns(Frame.columns) # <<>>
    /\ raised' = Append(raised, [sheet |-> sheet_idx, header_row |-> header_row,
                                 missing |-> MissingColumns(Frame.columns)])
    /\ pc' = "raised"
    /\ UNCHANGED <<workbook, header_row, sheet_idx, row_idx, date_to_activities,
                   json_data, html_file, debug_file, printed>>
    /\ UNCHANGED <<fnVars, padYear>>

\* main: the handler of the first ValueError calls
\* table_to_json(excel_file, header_row=1).
RetryWithSecondRow ==
    /\ pc = "raised"
    /\ header_row = 0
    /\ printed' = Append(printed, "Initial attempt failed")
    /\ header_row' = 1
    /\ sheet_idx' = 1
    /\ row_idx' = 0
    /\ date_to_activities' = <<>>
    /\ pc' = "sheet"
    /\ UNCHANGED <<workbook, json_data, raised, html_file, debug_file>>
    /\ UNCHANGED <<fnVars, padYear>>

\* main: the handler of the second ValueError raises it again; the entry point
\* prints it.
SecondAttemptFailed ==
    /\ pc = "raised"
    /\ header_row = 1
    /\ printed' = printed \o <<"Second attempt failed", "Error">>
    /\ pc' = "exit"
    /\ UNCHANGED <<workbook, header_row, sheet_idx, row_idx, date_to_activities,
                   json_data, raised, html_file, debug_file>>
    /\ UNCHANGED <<fnVars, padYear>>

\* table_to_json: one turn of the row loop.
ProcessRow ==
    /\ pc = "rows"
    /\ row_idx < Len(Frame.rows)
    /\ LET row == Frame.rows[row_idx + 1]
       IN date_to_activities' =
              DictAppend(date_to_activities, RowDate(Frame.columns, row, padYear),
                         ActivityData(Sheet(sheet_idx).name, Frame.columns, row))
    /\ row_idx' = row_idx + 1
    /\ UNCHANGED <<pc, workbook, header_row, sheet_idx, json_data, raised, html_file,
                   debug_file, printed>>
    /\ UNCHANGED <<fnVars, padYear>>

\* table_to_json: the row loop is over; the sheet loop goes on or ends.
NextSheet ==
    /\ pc = "rows"
    /\ row_idx = Len(Frame.rows)
    /\ IF sheet_idx < Len(workbook)
       THEN /\ sheet_idx' = sheet_idx + 1
            /\ pc' = "sheet"
       ELSE /\ pc' = "build"
            /\ UNCHANGED sheet_idx
    /\ UNCHANGED <<workbook, header_row, row_idx, date_to_activities, json_data,
                   raised, html_file, debug_file, printed>>
    /\ UNCHANGED <<fnVars, padYear>>

\* table_to_json: the itinerary is created and returned to main.
ReturnItinerary ==
    /\ pc = "build"
    /\ json_data' = [itinerary |-> Itinerary(date_to_activities)]
    /\ pc' = "update"
    /\ UNCHANGED <<workbook, header_row, sheet_idx, row_idx, date_to_activities,
                   raised, html_file, debug_file, printed>>
    /\ UNCHANGED <<fnVars, padYear>>

\* re.sub(pattern, new_json_str, html_content) on a file with or without a
\* match of the pattern: every match is replaced, no match leaves the text as
\* it is.
Substitute(file, has_marker, data) ==
    IF has_marker THEN [patched |-> TRUE, data |-> data] ELSE file

\* update_html: the try block runs to its end.  Whether the file read holds
\* the marker pattern is the environment's choice.
UpdateHtmlWritten ==
    /\ pc = "update"
    /\ \E has_marker \in BOOLEAN :
          html_file' = Substitute(html_file, has_marker, json_data)
    /\ printed' = Append(printed, "Successfully updated")
    /\ pc' = "exit"
    /\ UNCHANGED <<workbook, header_row, sheet_idx, row_idx, date_to_activities,
                   json_data, raised, debug_file>>
    /\ UNCHANGED <<fnVars, padYear>>

\* update_html: the try block raises (the file cannot be read or written, or
\* re.sub rejects an escape in the replacement) and the handler saves the data.
UpdateHtmlFailed ==
    /\ pc = "update"
    /\ debug_file' = json_data
    /\ printed' = printed \o <<"Error updating HTML", "Saved JSON">>
    /\ pc' = "exit"
    /\ UNCHANGED <<workbook, header_row, sheet_idx, row_idx, date_to_activities,
                   json_data, raised, html_file>>
    /\ UNCHANGED <<fnVars, padYear>>

Next ==
    \/ FileNotFound
    \/ CallTableToJson
    \/ ReadSheet
    \/ RaiseMissingColumns
    \/ RetryWithSecondRow
    \/ SecondAttemptFailed
    \/ ProcessRow
    \/ NextSheet
    \/ ReturnItinerary
    \/ UpdateHtmlWritten
    \/ UpdateHtmlFailed

Spec == Init /\ [][Next]_vars

(***************************************************************************)
(* Properties.                                                             *)
(***************************************************************************)
\* k occurs in s when letter case is ignored (k is in lower case).
ContainsCI(s, k) ==
    \E i \in 0..(Len(s) - Len(k)) :
        \A j \in 1..Len(k) : LowerChar(s[i + j]) = k[j]

\* Neither text holds a keyword of any of the keyword sets.
NoTypeKeyword ==
    /\ \A k \in TravelActivityKeywords \cup DiningKeywords \cup ActivityActivityKeywords :
          ~ContainsCI(activity, k)
    /\ \A k \in TravelNotesKeywords \cup ActivityNotesKeywords : ~ContainsCI(notes, k)

\* C1: the type list assign_activity_type returns is never empty, and it is
\* exactly ['activity'] when neither text contains a keyword of the travel,
\* dining or activity sets.
C1_TypesNeverEmpty ==
    pc = "done" =>
        /\ types # <<>>
        /\ Elements(types) \subseteq {"travel", "dining", "activity"}
        /\ NoTypeKeyword => types = <<"activity">>

\* C1 witness: a call on texts without any keyword has returned the default.
C1_Witness ==
    /\ pc = "done"
    /\ activity # <<>> /\ notes # <<>>
    /\ NoTypeKeyword
    /\ types = <<"activity">>

\* C2: the tags are applied independently: 'travel' is in the result exactly
\* when the activity holds one of the twelve travel keywords or the notes hold
\* one of flight, taxi, vaporetto, train; 'dining' is in the result exactly
\* when the activity holds one of breakfast, lunch, dinner, gelato, snack;
\* matching ignores letter case, so an activity holding 'breakfast' in any
\* letter case gives a list with 'dining', whatever else applies.
C2_TagsIndependent ==
    pc = "done" =>
        /\ "travel" \in Elements(types) <=>
              \/ \E k \in TravelActivityKeywords : ContainsCI(activity, k)
              \/ \E k \in TravelNotesKeywords : ContainsCI(notes, k)
        /\ "dining" \in Elements(types) <=>
              \E k \in DiningKeywords : ContainsCI(activity, k)
        /\ ContainsCI(activity, <<"b", "r", "e", "a", "k", "f", "a", "s", "t">>) => "dining" \in Elements(types)

\* C2 witness: an activity holding 'breakfast' in mixed case, with notes that
\* make it travel too, has been given both tags.
C2_Witness ==
    /\ pc = "done"
    /\ ContainsCI(activity, <<"b", "r", "e", "a", "k", "f", "a", "s", "t">>)
    /\ ~Contains(activity, <<"b", "r", "e", "a", "k", "f", "a", "s", "t">>)
    /\ ContainsCI(notes, <<"t", "r", "a", "i", "n">>)
    /\ "travel" \in Elements(types)
    /\ "dining" \in Elements(types)

\* The text holds the currency symbol or the word 'fare' or 'ticket'.
IsTicketText(s) ==
    \/ Contains(s, <<"EUR">>)
    \/ ContainsCI(s, <<"f", "a", "r", "e">>)
    \/ ContainsCI(s, <<"t", "i", "c", "k", "e", "t">>)

\* C3: process_notes is total: for the missing value, the empty text and a
\* text of filler phrases and whitespace only, as for any other text, it
\* returns two lists, the second never empty and exactly ['None.'] when no
\* fragment is a ticket fragment.
C3_TicketsNeverEmpty ==
    pc = "done" =>
        /\ DOMAIN costs_and_notes = 1..Len(costs_and_notes)
        /\ DOMAIN tickets_to_buy = 1..Len(tickets_to_buy)
        /\ tickets_to_buy # <<>>
        /\ (notes = Absent \/ ~IsTicketText(RemoveFiller(notes)))
              => tickets_to_buy = NoneSentinel
        /\ (notes = Absent \/ Strip(RemoveFiller(notes)) = <<>>)
              => costs_and_notes = <<>>

\* C3 witness: a call on a text of filler phrases and whitespace only has
\* returned no cost line and the sentinel.
C3_Witness ==
    /\ pc = "done"
    /\ notes # Absent
    /\ Len(notes) > Len(<<"H", "o", "l", "d", " ", "k", "i", "d", "s", "APOS", " ", "h", "a", "n", "d", "s">>)
    /\ Strip(RemoveFiller(notes)) = <<>>
    /\ costs_and_notes = <<>>
    /\ tickets_to_buy = NoneSentinel

\* C4: for present, non-empty notes, costs_and_notes holds every trimmed
\* non-empty fragment in the original order, and tickets_to_buy holds exactly
\* the fragments with the currency symbol or the word 'fare' or 'ticket', in
\* the same order, or the sentinel when there is none: the outer test leaves
\* out no such fragment.
C4_TicketsAreTheTicketFragments ==
    (pc = "done" /\ notes # Absent /\ notes # <<>>) =>
        /\ costs_and_notes = Sentences(Strip(RemoveFiller(notes)))
        /\ \A i \in 1..Len(costs_and_notes) :
              /\ costs_and_notes[i] # <<>>
              /\ Strip(costs_and_notes[i]) = costs_and_notes[i]
              /\ Elements(costs_and_notes[i]) \cap SentenceSeparators = {}
        /\ LET t == SelectSeq(costs_and_notes, IsTicketText)
           IN tickets_to_buy = IF t = <<>> THEN NoneSentinel ELSE t

\* C4 witness: a call has returned two fragments, of which the second is a
\* ticket by the word 'ticket' alone and the first is none.
C4_Witness ==
    /\ pc = "done"
    /\ notes # Absent
    /\ Len(costs_and_notes) = 2
    /\ ~IsTicketText(costs_and_notes[1])
    /\ ContainsCI(costs_and_notes[2], <<"t", "i", "c", "k", "e", "t">>)
    /\ ~Contains(costs_and_notes[2], <<"EUR">>)
    /\ tickets_to_buy = <<costs_and_notes[2]>>

\* The date written as 'Month D, YYYY': the full month name, the day without
\* a leading zero, the year in four digits.
LongDate(d) ==
    MonthNames[d.month] \o <<" ">> \o NatStr(d.day) \o <<",", " ">> \o ZeroPad(NatStr(d.year), 4)

\* C8: convert_date tries the day-month-year format first and the timestamp
\* format only when the first fails; when a format parses, the result is
\* 'Month D, YYYY' with no leading zero on the day; when both fail, the input
\* is returned unchanged.
C8_DateConverted ==
    pc = "done" =>
        LET d1 == ParseDayMonthYear(date_str)
            d2 == ParseTimestamp(date_str)
        IN  /\ tried = IF d1.ok THEN <<FirstFormat>> ELSE <<FirstFormat, SecondFormat>>
            /\ d1.ok => formatted_date = LongDate(d1)
            /\ (~d1.ok /\ d2.ok) => formatted_date = LongDate(d2)
            /\ (~d1.ok /\ ~d2.ok) => formatted_date = date_str

\* What holds of convert_date beside C8: the same statement for the dates
\* whose year has four significant digits.
DateConvertedFromYear1000 ==
    pc = "done" =>
        LET d1 == ParseDayMonthYear(date_str)
            d2 == ParseTimestamp(date_str)
        IN  /\ tried = IF d1.ok THEN <<FirstFormat>> ELSE <<FirstFormat, SecondFormat>>
            /\ d1.ok => formatted_date = LongDate(d1)
            /\ (~d1.ok /\ d2.ok /\ d2.year >= 1000) => formatted_date = LongDate(d2)
            /\ (~d1.ok /\ ~d2.ok) => formatted_date = date_str

\* A separator of legs as the claim has it: the arrow, or the word 'to' with
\* whitespace on both sides.
HasLegSeparator(loc) ==
    \/ Contains(loc, <<"ARROW">>)
    \/ \E i \in 2..(Len(loc) - 2) :
          /\ SubSeq(loc, i, i + 1) = <<"t", "o">>
          /\ loc[i - 1] \in Whitespace
          /\ loc[i + 2] \in Whitespace

\* C9: generate_map_link returns a list with one link per leg when the
\* location holds a leg separator, and a single link string otherwise, in
\* particular for one place whose name holds the letters 'to' inside a word;
\* every link is the base URL followed by a name without blanks and parentheses.
C9_OneLinkPerLeg ==
    pc = "done" =>
        /\ mapLink.kind = "list" <=> HasLegSeparator(location)
        /\ mapLink.kind = "string" => mapLink.links = << BaseUrl \o LinkName(location) >>
        /\ \A i \in 1..Len(mapLink.links) :
              /\ StartsWith(mapLink.links[i], BaseUrl)
              /\ Elements(Drop(mapLink.links[i], Len(BaseUrl))) \cap {" ", "(", ")"} = {}

\* The rows table_to_json was given by the call that returned, in encounter
\* order (sheets in workbook order, rows in sheet order), each with its sheet
\* and its date key.
RECURSIVE RowsFrom(_)
RowsFrom(i) ==
    IF i > Len(workbook) THEN <<>>
    ELSE LET f == ReadExcel(Sheet(i), header_row)
         IN [j \in 1..Len(f.rows) |->
                [sheet |-> i, row |-> f.rows[j], columns |-> f.columns,
                 date |-> RowDate(f.columns, f.rows[j], padYear)]]
            \o RowsFrom(i + 1)

AllRows == RowsFrom(1)

Returned == pc \in {"update", "exit"} /\ json_data # NoData

\* C5: the itinerary holds exactly one DateGroup per distinct converted date
\* string, in strictly ascending string order of the date key, and the city of
\* a group is the sorted, de-duplicated, ', '-joined set of the sheet names of
\* its member records.
C5_GroupsSortedByDateString ==
    Returned =>
        \E rows \in {AllRows} :
        LET it == json_data.itinerary
        IN  /\ {it[g].date : g \in 1..Len(it)} = {rows[r].date : r \in 1..Len(rows)}
            /\ \A g \in 1..(Len(it) - 1) : StrLess(it[g].date, it[g + 1].date)
            /\ \A g \in 1..Len(it) :
                  LET names == {Sheet(rows[r].sheet).name :
                                  r \in {q \in 1..Len(rows) : rows[q].date = it[g].date}}
                  IN \E seq \in [1..Cardinality(names) -> names] :
                        /\ \A k \in 1..(Len(seq) - 1) : StrLess(seq[k], seq[k + 1])
                        /\ it[g].city = Join(seq, <<",", " ">>)

\* C5 witness: sheets 'Venice' and 'Rome' both hold a row dated '3-Jul-25';
\* the group 'July 3, 2025' has the city 'Rome, Venice' and follows the group
\* 'December 1, 2025', which is later in the calendar.
C5_Witness ==
    /\ Returned
    /\ raised = <<>>
    /\ Len(json_data.itinerary) = 2
    /\ json_data.itinerary[1].date = <<"D", "e", "c", "e", "m", "b", "e", "r", " ", "1", ",", " ", "2", "0", "2", "5">>
    /\ json_data.itinerary[2].date = <<"J", "u", "l", "y", " ", "3", ",", " ", "2", "0", "2", "5">>
    /\ json_data.itinerary[2].city = <<"R", "o", "m", "e", ",", " ", "V", "e", "n", "i", "c", "e">>
    /\ Len(json_data.itinerary[2].activities) = 2

\* The labels of the line a failed call took as header, normalised.
HeaderOf(e) ==
    LET labels == ReadExcel(Sheet(e.sheet), e.header_row).columns
    IN {Lower(Strip(labels[k])) : k \in 1..Len(labels)}

\* The error lists exactly the required labels the sheet lacks, in the order
\* of the required labels.
ListsExactlyMissing(e) ==
    /\ \E header \in {HeaderOf(e)} :
          \A col \in Elements(expected_columns) :
              col \in Elements(e.missing) <=> col \notin header
    /\ Elements(e.missing) \subseteq Elements(expected_columns)
    /\ \A i, j \in 1..Len(e.missing) :
          i < j => IndexOf(expected_columns, e.missing[i], 1)
                      < IndexOf(expected_columns, e.missing[j], 1)

\* No row of the sheet the loop is at has been put into the dict.
NoRowOfSheetProcessed ==
    \A i \in 1..Len(date_to_activities) :
        \A k \in 1..Len(date_to_activities[i][2]) :
            date_to_activities[i][2][k].city # Sheet(sheet_idx).name

C7_DataPatchedOrSaved ==
    (pc = "exit" /\ json_data # NoData) =>
        /\ html_file.data = json_data \/ debug_file = json_data
        /\ printed[Len(printed)] = "Successfully updated" => html_file.data = json_data

\* C10: when table_to_json returns, every row of every sheet is one record in
\* the one group whose date is convert_date of the row's date cell, no row is
\* dropped or duplicated, and the records of a group are in encounter order.
C10_EveryRowOnceInOrder ==
    Returned =>
        \E rows \in {AllRows} :
        LET it == json_data.itinerary
        IN  /\ \A g \in 1..Len(it) :
                  \E members \in {SelectSeq(rows, LAMBDA r : r.date = it[g].date)} :
                      it[g].activities =
                          [k \in 1..Len(members) |->
                              ActivityData(Sheet(members[k].sheet).name,
                                           members[k].columns, members[k].row)]
            /\ \A g, h \in 1..Len(it) : g # h => it[g].date # it[h].date
            /\ \A r \in 1..Len(rows) : \E g \in 1..Len(it) : it[g].date = rows[r].date

\* C10 witness: two sheets with two rows each; a group holds the July rows of
\* both sheets, the rows of 'Venice' first.
C10_Witness ==
    /\ Returned
    /\ Len(AllRows) = 4
    /\ \E g \in 1..Len(json_data.itinerary) :
          LET a == json_data.itinerary[g].activities
          IN /\ Len(a) = 3
             /\ a[1].city = <<"V", "e", "n", "i", "c", "e">>
             /\ a[2].city = <<"V", "e", "n", "i", "c", "e">>
             /\ a[3].city = <<"R", "o", "m", "e">>

====
